---- MODULE Spec2Model ----
(***************************************************************************)
(* The upload / validation / result workflow of the StudentGradingSystem   *)
(* React component (src/unnamed/part_000).                                 *)
(*                                                                         *)
(* Encoding of JavaScript values:                                          *)
(*   - a nullable useState cell is a sequence of length 0 (null) or 1;     *)
(*   - text typed by the user and file names are sequences of characters,  *)
(*     so that toLowerCase, endsWith, trim and Number are computed;        *)
(*   - texts sent by the server are opaque strings; the string "undefined" *)
(*     stands for an absent property and "" for the empty text;            *)
(*   - an "array or undefined" property is a record [defined, items];      *)
(*   - a notification message is the sequence of the pieces that the code  *)
(*     concatenates (the empty sequence is the empty message '').          *)
(***************************************************************************)
EXTENDS Integers, Sequences, FiniteSets, Bags, TLC

VARIABLES
    selectedFile,    \* useState(null): <<>> or <<file>>
    isUploading,     \* useState(false)
    notification,    \* useState({message: '', type: ''})
    downloadInfo,    \* useState(null): <<>> or <<[fileId, filename]>>
    resultStats,     \* useState(null): "null", "undefined" or a summary
    resultDetails,   \* useState([]): [defined, items]
    chartData,       \* useState([]): sequence of [grade, count]
    gradeRanges,     \* useState(null): <<>> or <<map>>
    expectedTotal,   \* useState(''): characters
    subjectCode,     \* useState(''): characters
    timers,          \* pending setTimeout callbacks of showNotification: the delay of each, oldest first
    notifTimer,      \* the place in timers of the callback set with the notification on display, 0 if none
    uploads,         \* POST /upload requests in flight: the bag of their form data
    fetches,         \* GET /grade-ranges/{id} requests in flight: the bag of their ids
    downloads        \* GET /download/{id} requests in flight: the bag of the downloadInfo of each

vars == <<selectedFile, isUploading, notification, downloadInfo, resultStats,
          resultDetails, chartData, gradeRanges, expectedTotal, subjectCode,
          timers, notifTimer, uploads, fetches, downloads>>

-----------------------------------------------------------------------------
(* Bounds of the model *)

(* Callbacks outstanding at once: timers, upload, range and download requests *)
MaxPending == 3
MaxDetails == 3

(* setTimeout(..., 4000): the delay in time units of one second *)
DELAY == 4

-----------------------------------------------------------------------------
(* JavaScript values *)

Null == <<>>
Some(v) == <<v>>
Undefined == "undefined"
NoArray == [defined |-> FALSE, items |-> <<>>]
Arr(s) == [defined |-> TRUE, items |-> s]

(* Truthiness of a server text: undefined and '' are falsy *)
Truthy(text) == text \notin {Undefined, ""}

EmptyNotification == [message |-> <<>>, type |-> ""]

-----------------------------------------------------------------------------
(* Strings as character sequences *)

toLowerCaseChar(c) ==
    CASE c = "A" -> "a" [] c = "B" -> "b" [] c = "C" -> "c" [] c = "D" -> "d"
      [] c = "L" -> "l" [] c = "S" -> "s" [] c = "T" -> "t" [] c = "X" -> "x"
      [] OTHER -> c

toLowerCase(s) == [i \in 1..Len(s) |-> toLowerCaseChar(s[i])]

endsWith(s, suffix) ==
    /\ Len(suffix) <= Len(s)
    /\ SubSeq(s, Len(s) - Len(suffix) + 1, Len(s)) = suffix

IsWhiteSpace(c) == c = " "

RECURSIVE trimStart(_)
trimStart(s) ==
    IF s # <<>> /\ IsWhiteSpace(Head(s)) THEN trimStart(Tail(s)) ELSE s

RECURSIVE trimEnd(_)
trimEnd(s) ==
    IF s # <<>> /\ IsWhiteSpace(s[Len(s)]) THEN trimEnd(SubSeq(s, 1, Len(s) - 1)) ELSE s

trim(s) == trimEnd(trimStart(s))

DigitChars == {"0", "1", "2", "3", "4", "5", "6", "7", "8", "9"}

DigitValue(c) ==
    CASE c = "0" -> 0 [] c = "1" -> 1 [] c = "2" -> 2 [] c = "3" -> 3 [] c = "4" -> 4
      [] c = "5" -> 5 [] c = "6" -> 6 [] c = "7" -> 7 [] c = "8" -> 8 [] c = "9" -> 9

RECURSIVE DecimalValue(_)
DecimalValue(s) ==
    IF s = <<>> THEN 0 ELSE 10 * DecimalValue(SubSeq(s, 1, Len(s) - 1)) + DigitValue(s[Len(s)])

IsDigits(s) == s # <<>> /\ \A i \in 1..Len(s) : s[i] \in DigitChars

(* Number(text) for the decimal integer literals: [nan, value].  White space  *)
(* is trimmed, the empty text is 0, a sign may lead, anything else is NaN.    *)
Number(s) ==
    LET t == trim(s) IN
    IF t = <<>> THEN [nan |-> FALSE, value |-> 0]
    ELSE IF Head(t) \in {"-", "+"} /\ IsDigits(Tail(t))
         THEN [nan |-> FALSE,
               value |-> IF Head(t) = "-" THEN 0 - DecimalValue(Tail(t)) ELSE DecimalValue(Tail(t))]
    ELSE IF IsDigits(t) THEN [nan |-> FALSE, value |-> DecimalValue(t)]
    ELSE [nan |-> TRUE, value |-> 0]

isNaN(n) == n.nan

(* n < 0 in JavaScript: false for NaN *)
LessThanZero(n) == ~n.nan /\ n.value < 0

-----------------------------------------------------------------------------
(* The canonical grades, in the order of gradeSystem.ranges *)

gradeSystem ==
    [ranges |-> << [grade |-> "O", points |-> 10], [grade |-> "A+", points |-> 9],
                   [grade |-> "A", points |-> 8], [grade |-> "B+", points |-> 7],
                   [grade |-> "B", points |-> 6], [grade |-> "C", points |-> 5],
                   [grade |-> "U", points |-> 0] >>]

-----------------------------------------------------------------------------
(* The state of the component and of its environment, as one record *)

Cur ==
    [selectedFile |-> selectedFile, isUploading |-> isUploading,
     notification |-> notification, downloadInfo |-> downloadInfo,
     resultStats |-> resultStats, resultDetails |-> resultDetails,
     chartData |-> chartData, gradeRanges |-> gradeRanges,
     expectedTotal |-> expectedTotal, subjectCode |-> subjectCode,
     timers |-> timers, notifTimer |-> notifTimer,
     uploads |-> uploads, fetches |-> fetches, downloads |-> downloads]

Is(s) ==
    /\ selectedFile = s.selectedFile
    /\ isUploading = s.isUploading
    /\ notification = s.notification
    /\ downloadInfo = s.downloadInfo
    /\ resultStats = s.resultStats
    /\ resultDetails = s.resultDetails
    /\ chartData = s.chartData
    /\ gradeRanges = s.gradeRanges
    /\ expectedTotal = s.expectedTotal
    /\ subjectCode = s.subjectCode
    /\ timers = s.timers
    /\ notifTimer = s.notifTimer
    /\ uploads = s.uploads
    /\ fetches = s.fetches
    /\ downloads = s.downloads

Becomes(s) ==
    /\ selectedFile' = s.selectedFile
    /\ isUploading' = s.isUploading
    /\ notification' = s.notification
    /\ downloadInfo' = s.downloadInfo
    /\ resultStats' = s.resultStats
    /\ resultDetails' = s.resultDetails
    /\ chartData' = s.chartData
    /\ gradeRanges' = s.gradeRanges
    /\ expectedTotal' = s.expectedTotal
    /\ subjectCode' = s.subjectCode
    /\ timers' = s.timers
    /\ notifTimer' = s.notifTimer
    /\ uploads' = s.uploads
    /\ fetches' = s.fetches
    /\ downloads' = s.downloads

-----------------------------------------------------------------------------
(* showNotification, resetState, handleFileSelect *)

(* showNotification without the setTimeout *)
showNotificationForever(s, message, type) ==
    [s EXCEPT !.notification = [message |-> message, type |-> type]]

showNotification(s, message, type) ==
    [s EXCEPT !.notification = [message |-> message, type |-> type],
              !.timers = Append(@, DELAY),
              !.notifTimer = Len(s.timers) + 1]

(* resetState with the submission parameters left as they are *)
resetStateKeepingParameters(s) ==
    [s EXCEPT !.selectedFile = Null,
              !.isUploading = FALSE,
              !.downloadInfo = Null,
              !.resultStats = "null",
              !.resultDetails = Arr(<<>>),
              !.chartData = <<>>,
              !.gradeRanges = Null]

(* resetState with the busy flag left as it is *)
resetStateKeepingBusy(s) ==
    [s EXCEPT !.selectedFile = Null,
              !.downloadInfo = Null,
              !.resultStats = "null",
              !.resultDetails = Arr(<<>>),
              !.chartData = <<>>,
              !.gradeRanges = Null,
              !.expectedTotal = <<>>,
              !.subjectCode = <<>>]

resetState(s) ==
    [s EXCEPT !.selectedFile = Null,
              !.isUploading = FALSE,
              !.downloadInfo = Null,
              !.resultStats = "null",
              !.resultDetails = Arr(<<>>),
              !.chartData = <<>>,
              !.gradeRanges = Null,
              !.expectedTotal = <<>>,
              !.subjectCode = <<>>]

ExtXlsx == <<".", "x", "l", "s", "x">>
ExtXls == <<".", "x", "l", "s">>

(* IsExcelName with the dot of the extensions forgotten *)
IsExcelNameNoDot(name) ==
    endsWith(toLowerCase(name), Tail(ExtXlsx)) \/ endsWith(toLowerCase(name), Tail(ExtXls))

IsExcelName(name) ==
    endsWith(toLowerCase(name), ExtXlsx) \/ endsWith(toLowerCase(name), ExtXls)

handleFileSelect(s, files) ==
    IF files = <<>> THEN s
    ELSE LET file == files[1] IN
         IF ~IsExcelName(file.name)
         THEN showNotification(s, <<"Please select a valid Excel file (.xlsx or .xls)">>, "error")
         ELSE [resetState(s) EXCEPT !.selectedFile = Some(file)]

-----------------------------------------------------------------------------
(* handleUpload, up to the request (lines 78-93) *)

FormData(s) ==
    [file |-> s.selectedFile[1],
     expected_total_students |-> s.expectedTotal,
     subject_code |-> trim(s.subjectCode)]

(* handleUpload with the subject code tested before it is trimmed only *)
handleUploadUntrimmed(s) ==
    IF s.selectedFile = Null
    THEN showNotification(s, <<"Please select a file first">>, "error")
    ELSE IF \/ s.expectedTotal = <<>>
            \/ isNaN(Number(s.expectedTotal))
            \/ LessThanZero(Number(s.expectedTotal))
    THEN showNotification(s, <<"Please enter a valid expected total number of students">>, "error")
    ELSE IF s.subjectCode = <<>>
    THEN showNotification(s, <<"Please enter the subject code for verification">>, "error")
    ELSE [s EXCEPT !.isUploading = TRUE,
                   !.uploads = @ (+) SetToBag({FormData(s)})]

handleUpload(s) ==
    IF s.selectedFile = Null
    THEN showNotification(s, <<"Please select a file first">>, "error")
    ELSE IF \/ s.expectedTotal = <<>>
            \/ isNaN(Number(s.expectedTotal))
            \/ LessThanZero(Number(s.expectedTotal))
    THEN showNotification(s, <<"Please enter a valid expected total number of students">>, "error")
    ELSE IF s.subjectCode = <<>> \/ trim(s.subjectCode) = <<>>
    THEN showNotification(s, <<"Please enter the subject code for verification">>, "error")
    ELSE [s EXCEPT !.isUploading = TRUE,
                   !.uploads = @ (+) SetToBag({FormData(s)})]

-----------------------------------------------------------------------------
(* The bar chart data (lines 111-119) *)

gradeOrder == [i \in 1..Len(gradeSystem.ranges) |-> gradeSystem.ranges[i].grade]

(* details.reduce(...): the object of the counts, a function on the labels seen *)
(* CountGrades with (acc[g] || 1) + 1 *)
RECURSIVE CountGradesFromOne(_, _)
CountGradesFromOne(acc, details) ==
    IF details = <<>> THEN acc
    ELSE LET g == Head(details).Grade
             n == IF g \in DOMAIN acc THEN acc[g] ELSE 1
         IN  CountGradesFromOne([k \in DOMAIN acc \cup {g} |-> IF k = g THEN n + 1 ELSE acc[k]],
                                Tail(details))

RECURSIVE CountGrades(_, _)
CountGrades(acc, details) ==
    IF details = <<>> THEN acc
    ELSE LET g == Head(details).Grade
             n == IF g \in DOMAIN acc THEN acc[g] ELSE 0
         IN  CountGrades([k \in DOMAIN acc \cup {g} |-> IF k = g THEN n + 1 ELSE acc[k]],
                         Tail(details))

EmptyCounts == [k \in {} |-> 0]

(* formattedChartData made from the grades seen instead of gradeOrder *)
formattedChartDataOfSeen(details) ==
    LET counts == CountGrades(EmptyCounts, details)
        seen == SelectSeq(gradeOrder, LAMBDA g : g \in DOMAIN counts)
    IN  [i \in 1..Len(seen) |-> [grade |-> seen[i], count |-> counts[seen[i]]]]

formattedChartData(details) ==
    LET counts == CountGrades(EmptyCounts, details) IN
    [i \in 1..Len(gradeOrder) |->
        [grade |-> gradeOrder[i],
         count |-> IF gradeOrder[i] \in DOMAIN counts THEN counts[gradeOrder[i]] ELSE 0]]

-----------------------------------------------------------------------------
(* handleUpload, from the response on (lines 93-137) *)

(* The requests in flight once the request r is settled *)
Remove(requests, r) == requests (-) SetToBag({r})

RECURSIVE join(_, _)
join(items, separator) ==
    IF items = <<>> THEN <<>>
    ELSE IF Len(items) = 1 THEN <<items[1]>>
    ELSE <<items[1], separator>> \o join(Tail(items), separator)

(* UploadErrorMessage with the list of found subjects left out *)
UploadErrorMessageNoList(response) ==
    LET result == response.body IN
    IF response.json = "null" THEN <<"TypeError">>
    ELSE IF Truthy(result.error) THEN <<result.error>>
    ELSE <<"Failed to upload file">>

(* The message of the Error thrown for a response that is not ok (lines 95-101) *)
UploadErrorMessage(response) ==
    LET result == response.body IN
    IF response.json = "null" THEN <<"TypeError">>
    ELSE IF result.found_subjects.defined
    THEN (IF Truthy(result.error) THEN <<result.error, " ">> ELSE <<>>)
         \o <<"Found subjects: ">> \o join(result.found_subjects.items, ", ")
    ELSE IF Truthy(result.error) THEN <<result.error>>
    ELSE <<"Failed to upload file">>

(* Lines 104-130: the body of try once the response is ok and parsed *)
commitResult(s, result) ==
    LET s1 == [s EXCEPT !.downloadInfo = Some([fileId |-> result.file_id, filename |-> result.filename]),
                        !.resultStats = result.summary,
                        !.resultDetails = result.details]
        s2 == showNotification(s1, <<"File processed successfully!">>, "success")
    IN  IF ~result.details.defined
        THEN showNotification(s2, <<"TypeError">>, "error")
        ELSE [s2 EXCEPT !.chartData = formattedChartData(result.details.items),
                        !.fetches = @ (+) SetToBag({result.file_id})]

(* uploadSettled without the test of response.ok *)
uploadSettledUnchecked(s, response) ==
    IF response.kind = "rejected" THEN showNotification(s, <<"Failed to fetch">>, "error")
    ELSE IF response.json = "invalid" THEN showNotification(s, <<"SyntaxError">>, "error")
    ELSE IF response.json = "null" THEN showNotification(s, <<"TypeError">>, "error")
    ELSE commitResult(s, response.body)

uploadSettled(s, response) ==
    IF response.kind = "rejected" THEN showNotification(s, <<"Failed to fetch">>, "error")
    ELSE IF response.json = "invalid" THEN showNotification(s, <<"SyntaxError">>, "error")
    ELSE IF ~response.ok THEN showNotification(s, UploadErrorMessage(response), "error")
    ELSE IF response.json = "null" THEN showNotification(s, <<"TypeError">>, "error")
    ELSE commitResult(s, response.body)

(* The flag cleared nowhere *)
uploadFinallyMissing(s) == s

uploadFinally(s) == [s EXCEPT !.isUploading = FALSE]

(* uploadCompleted dropping the answer to a request whose file is staged no more *)
uploadCompletedIfCurrent(s, request, response) ==
    IF s.selectedFile = Some(request.file)
    THEN uploadFinally(uploadSettled([s EXCEPT !.uploads = Remove(@, request)], response))
    ELSE [s EXCEPT !.uploads = Remove(@, request)]

(* The rest of handleUpload, run when the request is settled with response *)
uploadCompleted(s, request, response) ==
    uploadFinally(uploadSettled([s EXCEPT !.uploads = Remove(@, request)], response))

-----------------------------------------------------------------------------
(* The grade range fetch (lines 124-130) *)

(* rangesSettled with a catch that does nothing *)
rangesSettledKeeping(s, response) ==
    IF response.kind = "rejected" \/ response.json = "invalid" \/ response.json = "null"
    THEN s
    ELSE IF response.grade_ranges # Null
    THEN [s EXCEPT !.gradeRanges = response.grade_ranges]
    ELSE [s EXCEPT !.gradeRanges = Null]

rangesSettled(s, response) ==
    IF response.kind = "rejected" \/ response.json = "invalid" \/ response.json = "null"
    THEN [s EXCEPT !.gradeRanges = Null]
    ELSE IF response.grade_ranges # Null
    THEN [s EXCEPT !.gradeRanges = response.grade_ranges]
    ELSE [s EXCEPT !.gradeRanges = Null]

(* The callbacks of the range fetch, run when it is settled with response *)
rangesCompleted(s, fileId, response) ==
    rangesSettled([s EXCEPT !.fetches = Remove(@, fileId)], response)

-----------------------------------------------------------------------------
(* handleDownload (lines 141-159).  The handler reads downloadInfo of the  *)
(* render in which the button was clicked, before and after the await.     *)

(* handleDownload returning in silence when there is nothing to download *)
handleDownloadSilent(s) ==
    IF s.downloadInfo = Null THEN s
    ELSE [s EXCEPT !.downloads = @ (+) SetToBag({s.downloadInfo[1]})]

handleDownload(s) ==
    IF s.downloadInfo = Null
    THEN showNotification(s, <<"No file available for download.">>, "error")
    ELSE [s EXCEPT !.downloads = @ (+) SetToBag({s.downloadInfo[1]})]

(* downloadSettled without the catch: a failure shows nothing *)
downloadSettledUncaught(s, response) ==
    IF response.kind = "rejected" \/ ~response.ok \/ ~response.blob THEN s
    ELSE showNotification(s, <<"File downloaded successfully!">>, "success")

downloadSettled(s, response) ==
    IF response.kind = "rejected" THEN showNotification(s, <<"Failed to fetch">>, "error")
    ELSE IF ~response.ok THEN showNotification(s, <<"Download failed from server.">>, "error")
    ELSE IF ~response.blob THEN showNotification(s, <<"TypeError">>, "error")
    ELSE showNotification(s, <<"File downloaded successfully!">>, "success")

(* The rest of handleDownload, run when the request is settled with response *)
downloadCompleted(s, request, response) ==
    downloadSettled([s EXCEPT !.downloads = Remove(@, request)], response)

-----------------------------------------------------------------------------
(* The callback of setTimeout (line 34).  All delays are equal, so the     *)
(* callbacks run in the order in which they were set.                      *)

timerFired(s) ==
    [s EXCEPT !.notification = EmptyNotification,
              !.timers = Tail(@),
              !.notifTimer = 0]

-----------------------------------------------------------------------------
(* Inputs: the files offered, the texts typed, the answers of the server *)

FileA == [name |-> <<"a", ".", "x", "l", "s", "x">>]
FileB == [name |-> <<"B", ".", "X", "L", "S">>]
FileC == [name |-> <<"c", ".", "t", "x", "t">>]
FileD == [name |-> <<"x", "l", "s", "x">>]

FileLists == {<<>>, <<FileA>>, <<FileB>>, <<FileC>>, <<FileD>>, <<FileC, FileA>>}

ExpectedTotals == {<<>>, <<"4", "5">>, <<"-", "1">>, <<"a", "b", "c">>}
SubjectCodes == {<<>>, <<" ">>, <<"C", "S", "1", "0", "1">>}

NoBody ==
    [error |-> Undefined, found_subjects |-> NoArray, file_id |-> Undefined,
     filename |-> Undefined, summary |-> Undefined, details |-> NoArray]

Student(g) == [Grade |-> g]

Rejected == [kind |-> "rejected", ok |-> FALSE, json |-> "invalid", body |-> NoBody]
Http(ok, json, body) == [kind |-> "http", ok |-> ok, json |-> json, body |-> body]

Result1 ==
    [NoBody EXCEPT !.file_id = "F1", !.filename = "graded_a.xlsx", !.summary = "S1",
                   !.details = Arr(<<Student("O"), Student("O"), Student("B")>>)]
Result2 ==
    [NoBody EXCEPT !.file_id = "F2", !.filename = "graded_b.xlsx", !.summary = "S2",
                   !.details = Arr(<<Student("A+"), Student("F")>>)]
ResultNoDetails ==
    [NoBody EXCEPT !.file_id = "F2", !.filename = "graded_b.xlsx", !.summary = "S2"]

UploadResponses ==
    { Rejected,
      Http(TRUE, "object", Result1),
      Http(TRUE, "object", Result2),
      Http(TRUE, "object", ResultNoDetails),
      Http(TRUE, "null", NoBody),
      Http(TRUE, "invalid", NoBody),
      Http(FALSE, "object", [NoBody EXCEPT !.error = "mismatch",
                                           !.found_subjects = Arr(<<"CS101", "CS102">>)]),
      Http(FALSE, "object", [NoBody EXCEPT !.found_subjects = Arr(<<"CS101">>)]),
      Http(FALSE, "object", [NoBody EXCEPT !.error = "bad file"]),
      Http(FALSE, "object", NoBody),
      Http(FALSE, "null", NoBody),
      Http(FALSE, "invalid", NoBody) }

(* The bodies {error?, found_subjects?} of a refusal: no, an empty or a     *)
(* given error text, and no, an empty, a one-element or a longer list      *)
RefusalBodies ==
    { [NoBody EXCEPT !.error = e, !.found_subjects = f] :
        e \in {Undefined, "", "mismatch"},
        f \in {NoArray, Arr(<<>>), Arr(<<"CS101">>), Arr(<<"CS101", "CS102">>)} }

(* What the server answers on /grade-ranges/{id} when it has the ranges of id *)
RangesOf(id) ==
    IF id = "F1" THEN [g \in {"O", "U"} |-> IF g = "O" THEN "91-100" ELSE "0-49"]
    ELSE [g \in {"O", "U"} |-> IF g = "O" THEN "85-100" ELSE "0-39"]

RangesResponses(id) ==
    { [kind |-> "rejected", json |-> "invalid", grade_ranges |-> Null],
      [kind |-> "http", json |-> "invalid", grade_ranges |-> Null],
      [kind |-> "http", json |-> "null", grade_ranges |-> Null],
      [kind |-> "http", json |-> "object", grade_ranges |-> Null],
      [kind |-> "http", json |-> "object", grade_ranges |-> Some(RangesOf(id))] }

(* The answers on /download/{id}: the fetch fails, the status is not ok,   *)
(* the body cannot be read, the body is read                               *)
DownloadResponses ==
    { [kind |-> "rejected", ok |-> FALSE, blob |-> FALSE],
      [kind |-> "http", ok |-> FALSE, blob |-> TRUE],
      [kind |-> "http", ok |-> TRUE, blob |-> FALSE],
      [kind |-> "http", ok |-> TRUE, blob |-> TRUE] }

-----------------------------------------------------------------------------
(* The state machine *)

InitialState ==
    [selectedFile |-> Null, isUploading |-> FALSE,
     notification |-> EmptyNotification, downloadInfo |-> Null,
     resultStats |-> "null", resultDetails |-> Arr(<<>>),
     chartData |-> <<>>, gradeRanges |-> Null,
     expectedTotal |-> <<>>, subjectCode |-> <<>>,
     timers |-> <<>>, notifTimer |-> 0,
     uploads |-> EmptyBag, fetches |-> EmptyBag, downloads |-> EmptyBag]

Init == Is(InitialState)

(* One handler run, to the state s *)
Step(s) ==
    /\ Len(s.timers) + BagCardinality(s.uploads) + BagCardinality(s.fetches)
          + BagCardinality(s.downloads) <= MaxPending
    /\ Becomes(s)

SelectFile(files) ==
    /\ files \in FileLists
    /\ Step(handleFileSelect(Cur, files))

FileSelect == \E files \in FileLists : SelectFile(files)

(* The Remove button, rendered while a file is selected (lines 220-226) *)
RemoveClick ==
    /\ selectedFile # Null
    /\ Step(resetState(Cur))

(* The two inputs, rendered while a file is selected (lines 231-245) *)
ExpectedTotalChange ==
    /\ selectedFile # Null
    /\ \E v \in ExpectedTotals \ {expectedTotal} :
          Step([Cur EXCEPT !.expectedTotal = v])

SubjectCodeChange ==
    /\ selectedFile # Null
    /\ \E v \in SubjectCodes \ {subjectCode} :
          Step([Cur EXCEPT !.subjectCode = v])

(* The upload button disabled while no file is selected only *)
UploadDisabledWithoutFile == selectedFile = Null

(* The upload button, disabled={!selectedFile || isUploading} (line 246) *)
UploadDisabled == selectedFile = Null \/ isUploading

UploadClick ==
    /\ ~UploadDisabled
    /\ Step(handleUpload(Cur))

Settle(request, response) ==
    Step(uploadCompleted(Cur, request, response))

UploadResponse ==
    \E request \in BagToSet(uploads) : \E response \in UploadResponses :
        Settle(request, response)

SettleRanges(fileId, response) ==
    Step(rangesCompleted(Cur, fileId, response))

RangesResponse ==
    \E fileId \in BagToSet(fetches) : \E response \in RangesResponses(fileId) :
        SettleRanges(fileId, response)

(* The download button, rendered while downloadInfo is set (lines 249-253) *)
DownloadClick ==
    /\ downloadInfo # Null
    /\ Step(handleDownload(Cur))

SettleDownload(request, response) ==
    Step(downloadCompleted(Cur, request, response))

DownloadResponse ==
    \E request \in BagToSet(downloads) : \E response \in DownloadResponses :
        SettleDownload(request, response)

TimerFire ==
    /\ timers # <<>>
    /\ Step(timerFired(Cur))

Next ==
    \/ FileSelect
    \/ RemoveClick
    \/ ExpectedTotalChange
    \/ SubjectCodeChange
    \/ UploadClick
    \/ UploadResponse
    \/ RangesResponse
    \/ DownloadClick
    \/ DownloadResponse
    \/ TimerFire

Spec == Init /\ [][Next]_vars

(* A callback of setTimeout that is due is run *)
SpecFair == Spec /\ WF_vars(TimerFire)

-----------------------------------------------------------------------------
(* The bar chart data of every list of students: one upload, answered with *)
(* a result that holds any details of at most MaxDetails students          *)

GradeLabels == {"O", "A+", "A", "B+", "B", "C", "U", "F", Undefined}

DetailsLists == UNION {[1..n -> {Student(g) : g \in GradeLabels}] : n \in 0..MaxDetails}

(* File a.xlsx selected, both parameters typed, the upload button clicked *)
UploadingState ==
    handleUpload([handleFileSelect(InitialState, <<FileA>>)
                     EXCEPT !.expectedTotal = <<"4", "5">>,
                            !.subjectCode = <<"C", "S", "1", "0", "1">>])

InitAgg == Is(UploadingState)

AggregateUpload ==
    \E details \in DetailsLists :
        \E request \in BagToSet(uploads) :
            Settle(request, Http(TRUE, "object", [Result1 EXCEPT !.details = Arr(details)]))

NextAgg == AggregateUpload

SpecAgg == InitAgg /\ [][NextAgg]_vars

-----------------------------------------------------------------------------
(* Properties *)

FileTypeMessage == <<"Please select a valid Excel file (.xlsx or .xls)">>

(* The offered files by what their names end in, case ignored *)
ExcelFiles == {FileA, FileB}
OtherFiles == {FileC, FileD}

(* The cells of s that hold the result of an upload *)
ResultOf(s) == <<s.downloadInfo, s.resultStats, s.resultDetails, s.chartData>>

(* The cells of s that the user fills in *)
FormOf(s) == <<s.selectedFile, s.expectedTotal, s.subjectCode>>

(* s shows exactly one notification more than the state at hand, an error *)
OneErrorShown(s) ==
    /\ Len(s.timers) = Len(timers) + 1
    /\ s.notification.type = "error"
    /\ s.notification.message # <<>>

(* C1: in every state, selecting a file whose name ends neither in .xlsx   *)
(* nor in .xls, case ignored, leaves the staged file, the parameters, the  *)
(* result, the range map, the chart data and the busy flag as they are and *)
(* shows exactly one error notification.                                   *)
C1_InvalidFileRejected ==
    \A files \in FileLists :
        (files # <<>> /\ files[1] \in OtherFiles)
        => LET s == handleFileSelect(Cur, files) IN
           /\ FormOf(s) = FormOf(Cur)
           /\ ResultOf(s) = ResultOf(Cur)
           /\ s.gradeRanges = gradeRanges
           /\ s.isUploading = isUploading
           /\ s.uploads = uploads /\ s.fetches = fetches /\ s.downloads = downloads
           /\ OneErrorShown(s)
           /\ s.notification.message = FileTypeMessage

(* A file was rejected while another one was staged and a result was on display *)
C1_Witness ==
    /\ notification.message = FileTypeMessage
    /\ selectedFile # Null
    /\ downloadInfo # Null

(* C2: selecting an Excel file while a result of an earlier upload is held *)
(* clears the download info, the summary, the details, the range map, the  *)
(* chart data and both parameters, and stages exactly the new file.        *)
C2_ValidFileClearsResult ==
    \A files \in FileLists :
        (files # <<>> /\ files[1] \in ExcelFiles /\ downloadInfo # Null)
        => LET s == handleFileSelect(Cur, files) IN
           /\ s.selectedFile = <<files[1]>>
           /\ s.downloadInfo = Null
           /\ s.resultStats = "null"
           /\ s.resultDetails = Arr(<<>>)
           /\ s.chartData = <<>>
           /\ s.gradeRanges = Null
           /\ s.expectedTotal = <<>>
           /\ s.subjectCode = <<>>

(* A file was staged over a result, and the range request of that result is still out *)
C2_Witness ==
    /\ selectedFile = <<FileB>>
    /\ downloadInfo = Null
    /\ chartData = <<>>
    /\ fetches # EmptyBag

(* The texts that handleUpload must refuse *)
RefusedTotals == {<<>>, <<"-", "1">>, <<"a", "b", "c">>}
BlankCodes == {<<>>, <<" ">>}

(* C3: handleUpload with no file staged, with an expected total that is    *)
(* empty, not a number or negative, or with a subject code that is empty   *)
(* once trimmed issues no request, leaves the busy flag and everything     *)
(* else as it is, and shows exactly one error notification.                *)
C3_SubmitFailsFast ==
    (selectedFile = Null \/ expectedTotal \in RefusedTotals \/ subjectCode \in BlankCodes)
    => LET s == handleUpload(Cur) IN
       /\ s.uploads = uploads /\ s.fetches = fetches /\ s.downloads = downloads
       /\ s.isUploading = isUploading
       /\ FormOf(s) = FormOf(Cur)
       /\ ResultOf(s) = ResultOf(Cur)
       /\ s.gradeRanges = gradeRanges
       /\ OneErrorShown(s)

(* The upload button was clicked with a blank subject code and the total was not refused *)
C3_Witness ==
    /\ notification.message = <<"Please enter the subject code for verification">>
    /\ subjectCode = <<" ">>
    /\ uploads = EmptyBag
    /\ ~isUploading

CanonicalGrades == <<"O", "A+", "A", "B+", "B", "C", "U">>

NumberOf(details, g) == Cardinality({k \in 1..Len(details) : details[k].Grade = g})

(* C4: the chart data committed with the details of an upload has one      *)
(* entry per canonical grade, in the order O, A+, A, B+, B, C, U, and the  *)
(* count of each entry is the number of students with that grade; a        *)
(* student with another label changes no count.                            *)
C4_AggregateCounts ==
    (downloadInfo # Null /\ resultDetails.defined)
    => /\ Len(chartData) = Len(CanonicalGrades)
       /\ \A i \in 1..Len(CanonicalGrades) :
             chartData[i] = [grade |-> CanonicalGrades[i],
                             count |-> NumberOf(resultDetails.items, CanonicalGrades[i])]

(* Details with a grade twice and a label that is no grade *)
C4_Witness ==
    /\ downloadInfo # Null
    /\ resultDetails = Arr(<<Student("B"), Student("F"), Student("B")>>)
    /\ chartData[5].count = 2

(* C5 as stated: the chart data has 7 entries in every state *)
C5_AlwaysSeven == Len(chartData) = 7

(* C5, amended: the chart data is empty, or has 7 entries, one per         *)
(* canonical grade in the canonical order.                                 *)
C5_EmptyOrSeven ==
    \/ chartData = <<>>
    \/ /\ Len(chartData) = 7
       /\ \A i \in 1..7 : chartData[i].grade = CanonicalGrades[i]

(* Chart data of details in which two labels only appear, one of them no canonical grade *)
C5_Witness ==
    /\ chartData # <<>>
    /\ resultDetails = Arr(<<Student("A+"), Student("F")>>)

FailedResponses == {r \in UploadResponses : r.kind = "rejected" \/ ~r.ok}

(* C6: in every state with an upload request in flight, if the request     *)
(* fails or is answered with a status that is not ok, then the download    *)
(* info, the summary, the details, the chart data and the range map stay   *)
(* as they are, no range request is issued and exactly one error           *)
(* notification is shown.                                                  *)
C6_FailureCommitsNothing ==
    \A request \in BagToSet(uploads) : \A response \in FailedResponses :
        LET s == uploadCompleted(Cur, request, response) IN
        /\ ResultOf(s) = ResultOf(Cur)
        /\ s.gradeRanges = gradeRanges
        /\ s.fetches = fetches
        /\ OneErrorShown(s)

(* A refusal by the server arrived while the result of an earlier upload was on display *)
C6_Witness ==
    /\ notification.message = <<"mismatch", " ", "Found subjects: ", "CS101", ", ", "CS102">>
    /\ downloadInfo # Null
    /\ chartData # <<>>

(* C7: in every state with an upload request in flight, whatever the       *)
(* outcome of the request, the busy flag is false once the rest of         *)
(* handleUpload has run.                                                   *)
C7_BusyCleared ==
    \A request \in BagToSet(uploads) : \A response \in UploadResponses :
        ~uploadCompleted(Cur, request, response).isUploading

(* The request completed with a body that is no JSON, and no other request is in flight *)
C7_Witness ==
    /\ notification.message = <<"SyntaxError">>
    /\ uploads = EmptyBag
    /\ selectedFile # Null
    /\ ~isUploading

(* C8: in every state with a range request in flight, if the request fails *)
(* or its answer has no grade_ranges, the range map becomes null, the      *)
(* result of the upload stays as it is and no notification is shown.       *)
C8_RangeFailureIsolated ==
    \A fileId \in BagToSet(fetches) : \A response \in RangesResponses(fileId) :
        response.grade_ranges = Null
        => LET s == rangesCompleted(Cur, fileId, response) IN
           /\ s.gradeRanges = Null
           /\ ResultOf(s) = ResultOf(Cur)
           /\ s.notification = notification
           /\ s.timers = timers

(* A range request was settled without ranges while the result is on display *)
C8_Witness ==
    /\ fetches = EmptyBag
    /\ gradeRanges = Null
    /\ downloadInfo # Null
    /\ resultStats = "S1"
    /\ resultDetails.items # <<>>

(* C9: a range map is on display only together with the summary and the    *)
(* details of an upload.                                                   *)
C9_RangesOnlyWithResult ==
    gradeRanges # Null
    => /\ resultStats \notin {"null", Undefined}
       /\ resultDetails.defined
       /\ resultDetails.items # <<>>

(* C10: the callback of an earlier notification does not clear a later     *)
(* one: a notification on display is cleared only by the callback that was *)
(* set together with it, which is then the oldest one pending.             *)
C10_ClearedByOwnTimer ==
    [][(notification.message # <<>> /\ TimerFire) => notifTimer = 1]_vars

(* C11: in every state without download info, handleDownload issues no     *)
(* request, shows exactly one error notification and changes nothing else. *)
C11_NoDownloadTarget ==
    downloadInfo = Null
    => LET s == handleDownload(Cur) IN
       /\ s.downloads = downloads /\ s.uploads = uploads /\ s.fetches = fetches
       /\ FormOf(s) = FormOf(Cur)
       /\ ResultOf(s) = ResultOf(Cur)
       /\ s.gradeRanges = gradeRanges
       /\ s.isUploading = isUploading
       /\ OneErrorShown(s)
       /\ s.notification.message = <<"No file available for download.">>

(* The download info of an upload was cleared by a reset or a selection    *)
(* while its range request was out, and handleDownload answers with the    *)
(* error there                                                             *)
C11_Witness ==
    /\ downloadInfo = Null
    /\ fetches # EmptyBag
    /\ handleDownload(Cur).notification =
          [message |-> <<"No file available for download.">>, type |-> "error"]

(* m holds the pieces of part next to each other *)
Contains(m, part) ==
    \E i \in 0..(Len(m) - Len(part)) : SubSeq(m, i + 1, i + Len(part)) = part

(* The message that C12 describes for a response that is not ok *)
DescribedMessage(response, m) ==
    LET result == response.body IN
    IF response.json = "object" /\ result.found_subjects.defined
    THEN /\ Truthy(result.error) => Head(m) = result.error
         /\ endsWith(m, join(result.found_subjects.items, ", "))
    ELSE IF response.json = "object" /\ Truthy(result.error)
    THEN m = <<result.error>>
    ELSE m = <<"Failed to upload file">>

(* The error notification of s carries the message that C12 describes *)
DescribedRefusal(response, s) ==
    /\ s.notification.type = "error"
    /\ DescribedMessage(response, s.notification.message)

ObjectRefusals == {Http(FALSE, "object", body) : body \in RefusalBodies}

(* C12 as stated: every response that is not ok, whatever its body, gives  *)
(* the message made of the error text and the list, or the fallback        *)
C12_EveryRefusal ==
    \A request \in BagToSet(uploads) :
        \A response \in ObjectRefusals \cup {Http(FALSE, "null", NoBody), Http(FALSE, "invalid", NoBody)} :
            DescribedRefusal(response, uploadCompleted(Cur, request, response))

(* C12, amended: for every response that is not ok and whose body is a     *)
(* JSON object, the message of the error notification is the error text    *)
(* (when there is one) followed by the found subjects joined with ", "     *)
(* when the body has such a list, and else the error text or the fallback; *)
(* error "mismatch" with found subjects CS101 and CS102 gives a message    *)
(* that contains "mismatch" and "CS101, CS102".                            *)
C12_RefusalMessage ==
    \A request \in BagToSet(uploads) :
        /\ \A response \in ObjectRefusals :
              DescribedRefusal(response, uploadCompleted(Cur, request, response))
        /\ LET response == Http(FALSE, "object",
                                [NoBody EXCEPT !.error = "mismatch",
                                               !.found_subjects = Arr(<<"CS101", "CS102">>)])
               m == uploadCompleted(Cur, request, response).notification.message
           IN  /\ Contains(m, <<"mismatch">>)
               /\ Contains(m, <<"CS101", ", ", "CS102">>)

(* The refusal with error text and found subjects is on display, and no result is *)
C12_Witness ==
    /\ notification = [message |-> <<"mismatch", " ", "Found subjects: ", "CS101", ", ", "CS102">>,
                       type |-> "error"]
    /\ downloadInfo = Null
    /\ uploads = EmptyBag

(* C13: in every state, also with an upload in flight, resetState gives a  *)
(* state with no file, empty parameters, no result, no range map, no chart *)
(* data and the busy flag false, and resetState of that state is the same  *)
(* state.                                                                  *)
C13_ResetClearsAll ==
    LET s == resetState(Cur) IN
    /\ FormOf(s) = <<Null, <<>>, <<>>>>
    /\ ResultOf(s) = <<Null, "null", Arr(<<>>), <<>>>>
    /\ s.gradeRanges = Null
    /\ ~s.isUploading
    /\ resetState(s) = s

(* The Remove button was clicked while the upload was in flight *)
C13_Witness ==
    /\ selectedFile = Null
    /\ uploads # EmptyBag
    /\ ~isUploading
    /\ expectedTotal = <<>> /\ subjectCode = <<>>

(* C14: no step issues an upload request from a state in which no file is  *)
(* staged or the busy flag is true.                                        *)
C14_SubmitGated ==
    [][BagCardinality(uploads') > BagCardinality(uploads)
         => (selectedFile # Null /\ ~isUploading)]_vars

(* A request was issued for the staged file and the button is disabled while it is out *)
C14_Witness ==
    /\ BagCardinality(uploads) = 1
    /\ selectedFile # Null
    /\ isUploading
    /\ UploadDisabled
    /\ \A request \in BagToSet(uploads) : request.file = selectedFile[1]

(* The bodies of the answers that are ok *)
ResultBodies == {r.body : r \in {r \in UploadResponses : r.kind = "http" /\ r.ok /\ r.json = "object"}}

(* The four cells of the result are those of the initial state *)
NoResult == ResultOf(Cur) = <<Null, "null", Arr(<<>>), <<>>>>

(* The four cells of the result are all taken from the body *)
ResultFrom(body) ==
    /\ body.details.defined
    /\ downloadInfo = Some([fileId |-> body.file_id, filename |-> body.filename])
    /\ resultStats = body.summary
    /\ resultDetails = body.details
    /\ chartData = formattedChartData(body.details.items)

(* C15: in every state the download info, the summary, the details and the *)
(* chart data are all empty or all taken from one and the same answer of   *)
(* the server.                                                             *)
C15_WholesaleResult ==
    NoResult \/ \E body \in ResultBodies : ResultFrom(body)

(* Messages and kinds to notify of, among them the one on display *)
SomeNotifications ==
    {[message |-> <<"File processed successfully!">>, type |-> "success"],
     [message |-> FileTypeMessage, type |-> "error"]}
    \cup ({notification} \ {EmptyNotification})

(* Right after showNotification the notification is the new one and one    *)
(* more callback is pending                                                *)
SingleSlot ==
    \A n \in SomeNotifications :
        LET s == showNotification(Cur, n.message, n.type) IN
        /\ s.notification = n
        /\ Len(s.timers) = Len(timers) + 1

(* C16: right after showNotification the notification on display is the    *)
(* new message and kind, whatever was on display; no notification is on    *)
(* display once all callbacks have run; and a notification on display is   *)
(* cleared in the end.                                                     *)
C16_SingleSlotCleared ==
    /\ [](SingleSlot /\ (timers = <<>> => notification = EmptyNotification))
    /\ (notification # EmptyNotification ~> notification = EmptyNotification)

(* A notification replaced another one, and the callbacks of both are pending *)
C16_Witness ==
    /\ notification.type = "success"
    /\ Len(timers) >= 2
    /\ notifTimer = Len(timers)

(* The request was made for a file that is staged no more *)
Stale(request) == selectedFile # Some(request.file)

(* C17: in every state with an upload in flight whose file is staged no    *)
(* more (after a reset or another selection), an ok answer with details    *)
(* still commits its download info, summary, details and chart data.       *)
C17_StaleUploadCommits ==
    \A request \in BagToSet(uploads) : \A body \in {Result1, Result2} :
        Stale(request)
        => LET s == uploadCompleted(Cur, request, Http(TRUE, "object", body)) IN
           ResultOf(s) = << Some([fileId |-> body.file_id, filename |-> body.filename]),
                            body.summary, body.details,
                            formattedChartData(body.details.items) >>

(* A result is held although no file is staged: it was committed after a reset *)
C17_Witness ==
    /\ selectedFile = Null
    /\ downloadInfo # Null
    /\ resultStats \in {"S1", "S2"}
    /\ Len(chartData) = 7

(* C18: in every state the details and the chart data are both empty, or   *)
(* the chart data is the aggregate of the details held; details that are   *)
(* undefined count as empty.                                               *)
C18_ChartMatchesDetails ==
    \/ /\ resultDetails.items = <<>>
       /\ chartData = <<>>
    \/ /\ resultDetails.defined
       /\ chartData = formattedChartData(resultDetails.items)

(* The cells of s other than the notification are those of the state at hand *)
OnlyNotificationChanged(s) ==
    /\ FormOf(s) = FormOf(Cur)
    /\ ResultOf(s) = ResultOf(Cur)
    /\ s.gradeRanges = gradeRanges
    /\ s.isUploading = isUploading
    /\ s.uploads = uploads /\ s.fetches = fetches

(* C19: handleDownload with download info changes no cell when it issues   *)
(* the request, and once the request is settled, whatever the outcome, it  *)
(* changes nothing but the notification: exactly one is shown, a success   *)
(* when the file was received and an error otherwise.                      *)
C19_DownloadOnlyNotifies ==
    /\ downloadInfo # Null
       => LET s == handleDownload(Cur) IN
          /\ OnlyNotificationChanged(s)
          /\ s.notification = notification /\ s.timers = timers
          /\ s.downloads = downloads (+) SetToBag({downloadInfo[1]})
    /\ \A request \in BagToSet(downloads) : \A response \in DownloadResponses :
          LET s == downloadCompleted(Cur, request, response) IN
          /\ OnlyNotificationChanged(s)
          /\ Len(s.timers) = Len(timers) + 1
          /\ s.notification.message # <<>>
          /\ s.notification.type =
                IF response.kind = "http" /\ response.ok /\ response.blob
                THEN "success" ELSE "error"

(* The server refused the download of the result on display *)
C19_Witness ==
    /\ notification = [message |-> <<"Download failed from server.">>, type |-> "error"]
    /\ downloadInfo # Null
    /\ downloads = EmptyBag
    /\ resultDetails.items # <<>>

(* C20: the busy flag is true in every state with an upload request in     *)
(* flight, and at most one upload request is in flight.                    *)
C20_BusyWhileInFlight ==
    /\ uploads # EmptyBag => isUploading
    /\ BagCardinality(uploads) <= 1

(* Two upload requests are in flight at once *)
TwoUploadsInFlight == BagCardinality(uploads) >= 2

(* C21: in every state with a range map, the map is the answer of the      *)
(* server for the file id held in the download info.                       *)
C21_RangesOfCurrentResult ==
    gradeRanges # Null
    => /\ downloadInfo # Null
       /\ gradeRanges = Some(RangesOf(downloadInfo[1].fileId))

(* The result of one upload is held together with the range map of another *)
RangesOfOtherResult ==
    /\ downloadInfo # Null
    /\ gradeRanges # Null
    /\ gradeRanges # Some(RangesOf(downloadInfo[1].fileId))

(* No answer to the range request of an earlier upload sets the range map  *)
(* while the result of a later upload is held                              *)
NoLateRanges ==
    [][\A fileId \in BagToSet(fetches) :
          (downloadInfo # Null /\ downloadInfo[1].fileId # fileId)
          => ~SettleRanges(fileId, [kind |-> "http", json |-> "object",
                                    grade_ranges |-> Some(RangesOf(fileId))])]_vars

====
